---- MODULE Spec2Model ----
(***************************************************************************)
(* Model of the Logger library: level filtering, entry construction,       *)
(* fan-out to transports, transport-list management, child loggers, the    *)
(* default logger and the aggregate flush()/close() operations of          *)
(* src/src/logger.ts, with the built-in transports and formatters.         *)
(*                                                                         *)
(* JavaScript runs every call to completion; the only code that runs       *)
(* inside log() besides the Logger's own is a transport's write(), which   *)
(* may throw, return a pending operation, or call back into the Logger.    *)
(* The fan-out loop is therefore modelled one write() at a time, and no    *)
(* other operation is enabled while a call is dispatching.                 *)
(***************************************************************************)
EXTENDS Integers, Sequences, FiniteSets, TLC

\* ------------------------------------------------------------------------
\* Bounds of the model
\* ------------------------------------------------------------------------
\* log calls made in one behaviour
MaxCalls == 1

\* length a transport list can grow to by addTransport
MaxList == 2

\* write operations pending at one time
MaxPending == 1

\* loggers the application holds: the first one and its descendants
MaxLoggers == 3

\* descendants of the first logger where thresholds and lists are compared
MaxChildren == 1

\* log calls of the scenarios that pass per-call options
MaxOptionCalls == 3

\* log calls of the scenarios that add and remove transports between calls
MaxListCalls == 2

\* loggers constructed where the default logger is set, reset and created
MaxInstances == 3

\* log calls of the scenarios of a logger over a memory sink
MaxMemoryCalls == 4

\* times one entry is formatted
MaxFormats == 2

\* entries written to a memory sink directly
MaxStored == 3

\* getEntries calls on a memory sink
MaxReads == 2

\* loggers of one family: a root, its child, a grandchild and a sibling
MaxKin == 4

\* ------------------------------------------------------------------------
\* Optional values: undefined is the empty set, a present value v is {v}
\* ------------------------------------------------------------------------
None == {}

Some(v) == {v}

\* a ?? b
Coalesce(a, b) == IF a # None THEN a ELSE b

\* the value of a present optional
The(o) == CHOOSE v \in o : TRUE

\* ------------------------------------------------------------------------
\* Log levels
\* ------------------------------------------------------------------------
ERROR == 0

WARN == 1

INFO == 2

DEBUG == 3

TRACE == 4

LogLevel == {ERROR, WARN, INFO, DEBUG, TRACE}

\* ------------------------------------------------------------------------
\* Transports the application registers
\* ------------------------------------------------------------------------
\* "console": a ConsoleTransport constructed without options, as the Logger
\*    constructor creates by default;
\* "consoleJson": a ConsoleTransport constructed with a JsonFormatter;
\* "memory": a MemoryTransport;
\* "callback": a CallbackTransport constructed with a callback only;
\* "callbackJson": a CallbackTransport constructed with a callback and a
\*    JsonFormatter;
\* "callbackNone": a CallbackTransport constructed from options that hold no
\*    callback;
\* "mockA", "mockB": two transports the application wrote, both named "mock",
\*    that define flush and close.
Transports ==
    {"console", "consoleJson", "memory", "callback", "callbackJson",
     "callbackNone",
     "mockA", "mockB"}

TransportName(t) ==
    CASE t \in {"console", "consoleJson"} -> "console"
      [] t = "memory" -> "memory"
      [] t \in {"callback", "callbackJson", "callbackNone"} -> "callback"
      [] t = "mockA" -> "mock"
      [] t = "mockB" -> "mock"

\* options.formatter of the built-in transports that take one
GivenFormatter(t) ==
    IF t \in {"consoleJson", "callbackJson"} THEN Some("json") ELSE None

\* every transport would format as JSON
TransportFormatterJson(t) == "json"

\* this.formatter = options.formatter ?? new SimpleFormatter()
TransportFormatter(t) == The(Coalesce(GivenFormatter(t), Some("simple")))

\* the optional operations a transport defines
Defines(t, op) == t \in {"mockA", "mockB"} /\ op \in {"flush", "close"}

\* The built-in transports' write() is the library's own code and returns
\* undefined; a transport the application wrote may also throw, return a
\* pending operation, or call back into the logger.
Custom == {"mockA", "mockB"}

\* A CallbackTransport's write() returns what the callback returns, so it
\* throws or stays pending when the callback does; without a callback the
\* call of this.callback throws a TypeError.
MayReturn == Transports \ {"callbackNone"}

MayThrow == Custom \cup {"callback", "callbackJson", "callbackNone"}

MayPend == Custom \cup {"callback", "callbackJson"}

\* the transports whose write() formats the entry and hands the text on
Formatting == {"console", "consoleJson", "callback", "callbackJson"}

\* transports the application adds after construction, and names it removes
Addable == {"mockB"}

Removable == {"mock"}

\* ------------------------------------------------------------------------
\* Inputs of the log methods
\* ------------------------------------------------------------------------
Messages == {"msg"}

NoOptions == [context |-> None, data |-> None, error |-> None]

\* options?: LogOptions; data is a set of <<key, value>> pairs
LogOptionsSet ==
    { NoOptions,
      [context |-> Some("req"), data |-> Some({<<"k", "v">>}), error |-> None] }

\* an Error with a stack, as engines create it
Boom == [name |-> "Error", message |-> "boom", stack |-> Some("Error: boom at f")]

\* per-call options that override the context, attach data, attach an error
OverrideOptionsSet ==
    { NoOptions,
      [context |-> Some("req"), data |-> Some({<<"k", "v">>}), error |-> None],
      [context |-> Some("job"), data |-> None, error |-> Some(Boom)] }

\* ------------------------------------------------------------------------
\* parseLogLevel: strings are sequences of characters
\* ------------------------------------------------------------------------
\* the letters of the level names
UpperLetters ==
    {"A", "B", "C", "D", "E", "F", "G", "I", "N", "O", "R", "T", "U", "W"}

ToLowerCase(c) ==
    CASE c = "A" -> "a" [] c = "B" -> "b" [] c = "C" -> "c" [] c = "D" -> "d"
      [] c = "E" -> "e" [] c = "F" -> "f" [] c = "G" -> "g" [] c = "I" -> "i"
      [] c = "N" -> "n" [] c = "O" -> "o" [] c = "R" -> "r" [] c = "T" -> "t"
      [] c = "U" -> "u" [] c = "W" -> "w" [] OTHER -> c

\* U+0131, LATIN SMALL LETTER DOTLESS I, whose upper-case form is "I"
DotlessI == "U+0131"

\* upper-casing would leave every character as it is
ToUpperSame(c) == c

\* String.prototype.toUpperCase, character by character
ToUpperCase(c) ==
    IF \E u \in UpperLetters : ToLowerCase(u) = c
    THEN CHOOSE u \in UpperLetters : ToLowerCase(u) = c
    ELSE IF c = DotlessI THEN "I" ELSE c

\* LOG_LEVEL_NAMES[level], as characters
NameChars(level) ==
    CASE level = ERROR -> <<"E", "R", "R", "O", "R">>
      [] level = WARN -> <<"W", "A", "R", "N">>
      [] level = INFO -> <<"I", "N", "F", "O">>
      [] level = DEBUG -> <<"D", "E", "B", "U", "G">>
      [] level = TRACE -> <<"T", "R", "A", "C", "E">>

\* the string a sequence of characters spells
RECURSIVE Spell(_)
Spell(chars) == IF chars = <<>> THEN "" ELSE Head(chars) \o Spell(Tail(chars))

\* level.toUpperCase(), then the first entry of the table whose name equals
\* it: Some(level), or None for null
ParseLogLevel(chars) ==
    LET upper == [i \in DOMAIN chars |-> ToUpperCase(chars[i])]
        found == {level \in LogLevel : NameChars(level) = upper}
    IN IF found = {} THEN None
       ELSE Some(CHOOSE level \in found : \A other \in found : level <= other)

\* every spelling of a name in upper, lower and mixed case
RECURSIVE CaseSpellings(_)
CaseSpellings(name) ==
    IF name = <<>> THEN {<<>>}
    ELSE {<<c>> \o rest : c \in {Head(name), ToLowerCase(Head(name))},
                          rest \in CaseSpellings(Tail(name))}

\* strings that spell no level name: "WARNING", "", numeric strings, names
\* with a character more or less, and "info" written with a dotless i
OtherStrings ==
    { <<"W", "A", "R", "N", "I", "N", "G">>, <<>>, <<"0">>, <<"1">>, <<"2">>,
      <<"3">>, <<"4">>, <<"i", "n", "v", "a", "l", "i", "d">>,
      <<"w", "a", "r", "n", " ">>, <<" ", "I", "N", "F", "O">>,
      <<"I", "N", "F">>, <<"E", "R", "R", "O", "R", "S">>,
      <<"W", "A", "R", "N", "1">>, <<DotlessI, "n", "f", "o">>,
      <<"I", "N", "F", "0">> }

\* the strings parseLogLevel is called with
ParseInputs ==
    OtherStrings \cup UNION {CaseSpellings(NameChars(level)) : level \in LogLevel}

\* ------------------------------------------------------------------------
\* Formatters
\* ------------------------------------------------------------------------
LOG_LEVEL_NAMES(level) ==
    CASE level = ERROR -> "ERROR"
      [] level = WARN -> "WARN"
      [] level = INFO -> "INFO"
      [] level = DEBUG -> "DEBUG"
      [] level = TRACE -> "TRACE"

\* JSON.stringify of a string of letters: the string between double quotes
Quote == "\""

JsonString(str) == Quote \o str \o Quote

\* the members of a data mapping, comma separated
RECURSIVE JsonMembers(_)
JsonMembers(data) ==
    IF data = {} THEN ""
    ELSE LET kv == CHOOSE p \in data : TRUE
             rest == data \ {kv}
         IN JsonString(kv[1]) \o ":" \o JsonString(kv[2])
              \o (IF rest = {} THEN "" ELSE "," \o JsonMembers(rest))

\* JSON.stringify(entry.data)
JsonData(data) == "{" \o JsonMembers(data) \o "}"

\* entry.timestamp.toISOString(); the model counts time in entries built
ToISOString(timestamp) == "2024-01-15T10:30:00.00" \o ToString(timestamp) \o "Z"

\* a value JavaScript takes as true in a condition: present and, for a
\* string, not empty
Truthy(o) == o # None /\ The(o) # ""

\* `[${entry.context}] ` or nothing
ContextPrefix(entry) ==
    IF Truthy(entry.context) THEN "[" \o The(entry.context) \o "] " ELSE ""

\* the data suffix would be written for every data mapping, empty or not
TextSuffixOfAnyData(entry) ==
    (IF entry.data # None
     THEN " " \o JsonData(The(entry.data)) ELSE "")
    \o (IF entry.error # None
        THEN "\n" \o The(Coalesce(The(entry.error).stack,
                                   Some(The(entry.error).message)))
        ELSE "")

\* the data and error suffixes the two text formatters share
TextSuffix(entry) ==
    (IF entry.data # None /\ The(entry.data) # {}
     THEN " " \o JsonData(The(entry.data)) ELSE "")
    \o (IF entry.error # None
        THEN "\n" \o The(Coalesce(The(entry.error).stack,
                                   Some(The(entry.error).message)))
        ELSE "")

\* SimpleFormatter.format
SimpleFormat(entry) ==
    "[" \o LOG_LEVEL_NAMES(entry.level) \o "] " \o ContextPrefix(entry)
        \o entry.message \o TextSuffix(entry)

\* TimestampedFormatter.format
TimestampedFormat(entry) ==
    "[" \o ToISOString(entry.timestamp) \o "] "
        \o "[" \o LOG_LEVEL_NAMES(entry.level) \o "] " \o ContextPrefix(entry)
        \o entry.message \o TextSuffix(entry)

\* JsonFormatter.format
JsonFormat(entry) ==
    "{" \o JsonString("level") \o ":" \o JsonString(LOG_LEVEL_NAMES(entry.level))
        \o "," \o JsonString("message") \o ":" \o JsonString(entry.message)
        \o "," \o JsonString("timestamp") \o ":"
        \o JsonString(ToISOString(entry.timestamp))
        \o (IF Truthy(entry.context)
            THEN "," \o JsonString("context") \o ":"
                     \o JsonString(The(entry.context))
            ELSE "")
        \o (IF entry.data # None
            THEN "," \o JsonString("data") \o ":" \o JsonData(The(entry.data))
            ELSE "")
        \o (IF entry.error # None
            THEN "," \o JsonString("error") \o ":{"
                     \o JsonString("name") \o ":"
                     \o JsonString(The(entry.error).name)
                     \o "," \o JsonString("message") \o ":"
                     \o JsonString(The(entry.error).message)
                     \o (IF The(entry.error).stack # None
                         THEN "," \o JsonString("stack") \o ":"
                                  \o JsonString(The(The(entry.error).stack))
                         ELSE "")
                     \o "}"
            ELSE "")
        \o "}"

\* formatter.format(entry) for the three built-in formatters
Format(formatter, entry) ==
    CASE formatter = "simple" -> SimpleFormat(entry)
      [] formatter = "timestamped" -> TimestampedFormat(entry)
      [] formatter = "json" -> JsonFormat(entry)

\* ------------------------------------------------------------------------
\* State
\* ------------------------------------------------------------------------
VARIABLES
    loggers,    \* the Logger objects: [level, context, transports, formatter]
    lists,      \* the transport arrays; a logger holds the index of its array
    entries,    \* the LogEntry objects built so far, in construction order
    written,    \* per transport, the entries its write() received, in order
    pending,    \* write operations returned to log() that are still pending
    call,       \* the log call in progress or completed by the latest step
    agg,        \* the latest flush()/close() call and its transport operations
    ret,        \* what the latest call returned
    defaultLogger,  \* the module variable defaultLogger: None is null
    output      \* the texts the formatting transports handed on, in order

vars ==
    <<loggers, lists, entries, written, pending, call, agg, ret,
      defaultLogger, output>>

\* new Logger(options)
NewLogger(options, listId) ==
    [ level |-> The(Coalesce(options.level, Some(INFO))),
      context |-> options.context,
      transports |-> listId,
      formatter |-> The(Coalesce(options.formatter, Some("simple"))) ]

\* the array a new logger holds: options.transports ?? [new ConsoleTransport()]
NewLoggerList(options) == The(Coalesce(options.transports, Some(<<"console">>)))

\* LoggerOptions the application constructs its logger with
LoggerOptionsSet ==
    { [level |-> None, context |-> None, transports |-> None,
       formatter |-> None],
      [level |-> Some(WARN), context |-> Some("app"),
       transports |-> Some(<<"mockA">>), formatter |-> None],
      [level |-> Some(TRACE), context |-> None,
       transports |-> Some(<<>>), formatter |-> None] }

NoCall ==
    [ seq |-> 0, method |-> "log", logger |-> 1, level |-> INFO,
      message |-> "msg", options |-> NoOptions, threshold |-> INFO,
      entry |-> 0, snapshot |-> <<>>, fanout |-> <<>>, index |-> 1,
      status |-> "none" ]

NoAggregate ==
    [ kind |-> "flush", targets |-> <<>>, ops |-> <<>>,
      before |-> 0, state |-> "none" ]

\* the latest call returned nothing
NoRet ==
    [ op |-> "none", receiver |-> 0, name |-> "", logger |-> 0, ok |-> FALSE,
      target |-> "", text |-> <<>>, value |-> None ]

\* the state once the application has constructed its first logger
Start(options) ==
    /\ lists = <<NewLoggerList(options)>>
    /\ loggers = <<NewLogger(options, 1)>>
    /\ entries = <<>>
    /\ written = [t \in Transports |-> <<>>]
    /\ pending = 0
    /\ call = NoCall
    /\ agg = NoAggregate
    /\ ret = NoRet
    /\ defaultLogger = None
    /\ output = <<>>

Init == \E options \in LoggerOptionsSet : Start(options)

\* a step within a call, or the settling of a promise, that hands no text on
Keep == UNCHANGED <<ret, defaultLogger, output>>

\* a call that returns nothing
Void == ret' = NoRet /\ UNCHANGED <<defaultLogger, output>>

\* the array of a logger (this.transports)
ListOf(lg) == lists[loggers[lg].transports]

\* no call is running: the application may make its next one
Idle == call.status # "dispatching"

\* the call record once the step after the call's completion is taken
Forget == call' = [NoCall EXCEPT !.seq = call.seq]

\* ------------------------------------------------------------------------
\* log(level, message, options) and the convenience methods
\* ------------------------------------------------------------------------
\* a filter that lets every level through
PassesAlways(level, threshold) == TRUE

\* the early return of log() is not taken: level <= this.level
Passes(level, threshold) == level <= threshold

\* the entry would carry the logger's context whatever the call passes
BuildEntryOfDefaults(lg, level, message, options) ==
    [ level |-> level,
      message |-> message,
      timestamp |-> Len(entries) + 1,
      context |-> loggers[lg].context,
      data |-> options.data,
      error |-> options.error ]

\* the entry log() builds
BuildEntry(lg, level, message, options) ==
    [ level |-> level,
      message |-> message,
      timestamp |-> Len(entries) + 1,
      context |-> Coalesce(options.context, loggers[lg].context),
      data |-> options.data,
      error |-> options.error ]

Log(lg, method, level, message, options) ==
    /\ Idle
    /\ IF ~Passes(level, loggers[lg].level)
       THEN /\ call' = [ NoCall EXCEPT !.seq = call.seq + 1, !.method = method,
                           !.logger = lg, !.level = level, !.message = message,
                           !.options = options,
                           !.threshold = loggers[lg].level,
                           !.snapshot = ListOf(lg), !.status = "returned" ]
            /\ UNCHANGED entries
       ELSE /\ entries' = Append(entries, BuildEntry(lg, level, message, options))
            /\ call' = [ NoCall EXCEPT !.seq = call.seq + 1, !.method = method,
                           !.logger = lg, !.level = level, !.message = message,
                           !.options = options,
                           !.threshold = loggers[lg].level,
                           !.entry = Len(entries) + 1,
                           !.snapshot = ListOf(lg),
                           !.status = IF ListOf(lg) = <<>> THEN "returned"
                                      ELSE "dispatching" ]
    /\ Void
    /\ UNCHANGED <<loggers, lists, written, pending, agg>>

LogCall ==
    \E lg \in DOMAIN loggers, level \in LogLevel, message \in Messages,
       options \in LogOptionsSet :
        call.seq < MaxCalls /\ Log(lg, "log", level, message, options)

\* error(message, options)
ErrorCall ==
    \E lg \in DOMAIN loggers, message \in Messages, options \in LogOptionsSet :
        call.seq < MaxCalls /\ Log(lg, "error", ERROR, message, options)

\* warn(message, options)
WarnCall ==
    \E lg \in DOMAIN loggers, message \in Messages, options \in LogOptionsSet :
        call.seq < MaxCalls /\ Log(lg, "warn", WARN, message, options)

\* info(message, options)
InfoCall ==
    \E lg \in DOMAIN loggers, message \in Messages, options \in LogOptionsSet :
        call.seq < MaxCalls /\ Log(lg, "info", INFO, message, options)

\* debug(message, options)
DebugCall ==
    \E lg \in DOMAIN loggers, message \in Messages, options \in LogOptionsSet :
        call.seq < MaxCalls /\ Log(lg, "debug", DEBUG, message, options)

\* trace(message, options)
TraceCall ==
    \E lg \in DOMAIN loggers, message \in Messages, options \in LogOptionsSet :
        call.seq < MaxCalls /\ Log(lg, "trace", TRACE, message, options)

\* an Error other than the one per-call options may hold
Crash == [name |-> "TypeError", message |-> "crash", stack |-> None]

\* the error member of options would win over the argument
WithErrorUnder(options, error) ==
    [options EXCEPT !.error = Coalesce(options.error, Some(error))]

\* { ...options, error }
WithError(options, error) == [options EXCEPT !.error = Some(error)]

\* logger.errorWithException("msg", error, options); JavaScript callers can
\* pass options that hold an error of their own
ErrorWithExceptionCall ==
    \E lg \in DOMAIN loggers, options \in OverrideOptionsSet :
        /\ call.seq < MaxCalls
        /\ Log(lg, "errorWithException", ERROR, "msg", WithError(options, Crash))

\* logger.error("msg") in scenarios of several calls
ListCall ==
    \E lg \in DOMAIN loggers :
        call.seq < MaxListCalls /\ Log(lg, "error", ERROR, "msg", NoOptions)

\* logger.error("msg", options) with options that override, in scenarios of
\* several calls
OptionsCall ==
    \E lg \in DOMAIN loggers, options \in OverrideOptionsSet :
        call.seq < MaxOptionCalls /\ Log(lg, "error", ERROR, "msg", options)

\* ------------------------------------------------------------------------
\* The fan-out loop: for (const transport of this.transports) write(entry)
\* ------------------------------------------------------------------------
Dispatching == call.status = "dispatching"

\* the transport the array iterator yields next
Current == ListOf(call.logger)[call.index]

\* the iterator's next step, reading the array as it is after the write
NextStatus(list) ==
    IF call.index + 1 > Len(list) THEN "returned" ELSE "dispatching"

\* the console method ConsoleTransport.write picks for a level
Channel(level) ==
    CASE level = ERROR -> "error"
      [] level = WARN -> "warn"
      [] level = INFO -> "info"
      [] level \in {DEBUG, TRACE} -> "debug"

\* A formatting transport formats the entry with its own formatter and hands
\* the text to the console method or to the callback, which returns, throws
\* or returns a pending operation; a CallbackTransport without a callback
\* fails before anything is handed on.
Emit(t, result) ==
    output' =
        IF t \in Formatting
        THEN Append(output,
                    [ sink |-> t,
                      channel |-> IF TransportName(t) = "callback"
                                  THEN "callback"
                                  ELSE Channel(entries[call.entry].level),
                      entry |-> call.entry,
                      formatter |-> TransportFormatter(t),
                      text |-> Format(TransportFormatter(t),
                                      entries[call.entry]),
                      result |-> result ])
        ELSE output

\* the transport would store the entry twice
InvokeTwice(t) ==
    written' = [written EXCEPT ![t] = Append(Append(@, call.entry), call.entry)]

\* transport.write(entry) is invoked on the current transport
Invoke(t) == written' = [written EXCEPT ![t] = Append(@, call.entry)]

Advance(t, list) ==
    call' = [call EXCEPT !.fanout = Append(@, t), !.index = @ + 1,
                         !.status = NextStatus(list)]

\* the transport would be put in front of the array
PushFront(list, t) == <<t>> \o list

\* this.transports.push(transport)
Push(list, t) == Append(list, t)

\* the index of the last transport of that name would be found
FindLastIndex(list, name) ==
    IF \E i \in 1..Len(list) : TransportName(list[i]) = name
    THEN CHOOSE i \in 1..Len(list) :
            /\ TransportName(list[i]) = name
            /\ \A j \in (i + 1)..Len(list) : TransportName(list[j]) # name
    ELSE 0

\* this.transports.findIndex((t) => t.name === name), 0 when there is none
FindIndex(list, name) ==
    IF \E i \in 1..Len(list) : TransportName(list[i]) = name
    THEN CHOOSE i \in 1..Len(list) :
            /\ TransportName(list[i]) = name
            /\ \A j \in 1..(i - 1) : TransportName(list[j]) # name
    ELSE 0

\* this.transports.splice(index, 1)
Splice(list, index) ==
    [i \in 1..(Len(list) - 1) |-> IF i < index THEN list[i] ELSE list[i + 1]]

\* the array after removeTransport(name)
Removed(list, name) ==
    IF FindIndex(list, name) # 0 THEN Splice(list, FindIndex(list, name))
    ELSE list

\* write() returns undefined
WriteReturns ==
    /\ Dispatching
    /\ Current \in MayReturn
    /\ Invoke(Current)
    /\ Emit(Current, "void")
    /\ Advance(Current, ListOf(call.logger))
    /\ UNCHANGED <<loggers, lists, entries, pending, agg, ret, defaultLogger>>

\* write() throws: the exception leaves the loop and log()
WriteThrows ==
    /\ Dispatching
    /\ Current \in MayThrow
    /\ Invoke(Current)
    /\ Emit(Current, "threw")
    /\ call' = [call EXCEPT !.fanout = Append(@, Current), !.status = "threw"]
    /\ UNCHANGED <<loggers, lists, entries, pending, agg, ret, defaultLogger>>

\* write() returns a pending operation, which log() drops
WritePending ==
    /\ Dispatching
    /\ Current \in MayPend
    /\ pending < MaxPending
    /\ Invoke(Current)
    /\ Emit(Current, "pending")
    /\ pending' = pending + 1
    /\ Advance(Current, ListOf(call.logger))
    /\ UNCHANGED <<loggers, lists, entries, agg, ret, defaultLogger>>

\* write() calls addTransport on the logger before it returns
WriteAddsTransport ==
    \E t \in Addable :
        /\ Dispatching
        /\ Current \in Custom
        /\ Len(ListOf(call.logger)) < MaxList
        /\ Invoke(Current)
        /\ lists' = [lists EXCEPT ![loggers[call.logger].transports] = Push(@, t)]
        /\ Advance(Current, Push(ListOf(call.logger), t))
        /\ Keep
        /\ UNCHANGED <<loggers, entries, pending, agg>>

\* write() calls removeTransport on the logger before it returns
WriteRemovesTransport ==
    \E name \in Removable :
        /\ Dispatching
        /\ Current \in Custom
        /\ FindIndex(ListOf(call.logger), name) # 0
        /\ Invoke(Current)
        /\ lists' = [lists EXCEPT ![loggers[call.logger].transports] =
                                        Removed(@, name)]
        /\ Advance(Current, Removed(ListOf(call.logger), name))
        /\ Keep
        /\ UNCHANGED <<loggers, entries, pending, agg>>

\* A pending write completes or fails. The Logger kept no reference to the
\* operation, so neither outcome reaches it; early tells whether the write
\* was dispatched before the latest flush()/close() call.
WriteSettles ==
    \E early \in BOOLEAN :
        /\ Idle
        /\ IF early THEN agg.before > 0 ELSE pending > agg.before
        /\ pending' = pending - 1
        /\ agg' = [agg EXCEPT !.before = IF early THEN @ - 1 ELSE @]
        /\ Forget
        /\ Keep
        /\ UNCHANGED <<loggers, lists, entries, written>>

\* ------------------------------------------------------------------------
\* setLevel, addTransport, removeTransport
\* ------------------------------------------------------------------------
\* the threshold would be one value that all loggers hold together
SetLevelOfAll(lg, level) ==
    /\ Idle
    /\ loggers' = [i \in DOMAIN loggers |-> [loggers[i] EXCEPT !.level = level]]
    /\ Forget
    /\ ret' = [NoRet EXCEPT !.op = "setLevel", !.receiver = lg]
    /\ UNCHANGED <<defaultLogger, output>>
    /\ UNCHANGED <<lists, entries, written, pending, agg>>

SetLevelTo(lg, level) ==
    /\ Idle
    /\ loggers' = [loggers EXCEPT ![lg].level = level]
    /\ Forget
    /\ ret' = [NoRet EXCEPT !.op = "setLevel", !.receiver = lg]
    /\ UNCHANGED <<defaultLogger, output>>
    /\ UNCHANGED <<lists, entries, written, pending, agg>>

SetLevel == \E lg \in DOMAIN loggers, level \in LogLevel : SetLevelTo(lg, level)

\* setLevel with the two thresholds the parent and child scenarios use
SetLevelOfFamily ==
    \E lg \in DOMAIN loggers, level \in {ERROR, DEBUG} : SetLevelTo(lg, level)

AddTransport ==
    \E lg \in DOMAIN loggers, t \in Addable :
        /\ Idle
        /\ Len(ListOf(lg)) < MaxList
        /\ lists' = [lists EXCEPT ![loggers[lg].transports] = Push(@, t)]
        /\ Forget
        /\ ret' = [NoRet EXCEPT !.op = "addTransport", !.receiver = lg,
                                 !.target = t]
        /\ UNCHANGED <<defaultLogger, output>>
        /\ UNCHANGED <<loggers, entries, written, pending, agg>>

RemoveTransport ==
    \E lg \in DOMAIN loggers, name \in Removable :
        /\ Idle
        /\ lists' = [lists EXCEPT ![loggers[lg].transports] = Removed(@, name)]
        /\ Forget
        /\ ret' = [NoRet EXCEPT
                     !.op = "removeTransport", !.receiver = lg, !.name = name,
                     !.ok = (FindIndex(ListOf(lg), name) # 0),
                     !.target = IF FindIndex(ListOf(lg), name) # 0
                                THEN ListOf(lg)[FindIndex(ListOf(lg), name)]
                                ELSE ""]
        /\ UNCHANGED <<defaultLogger, output>>
        /\ UNCHANGED <<loggers, entries, written, pending, agg>>

\* ------------------------------------------------------------------------
\* child()
\* ------------------------------------------------------------------------
\* the context segments the application names its children with
Segments == {"database", "query", ""}

\* the child would carry its own segment only
ChildContextOnly(parent, context) == context

\* this.context ? `${this.context}:${context}` : context
ChildContext(parent, context) ==
    IF Truthy(parent) THEN The(parent) \o ":" \o context ELSE context

\* the child would hold a copy of the parent's array
ChildTransportsCopied(ls, id) == [lists |-> Append(ls, ls[id]), id |-> Len(ls) + 1]

\* transports: this.transports hands the parent's array itself to the child
ChildTransports(ls, id) == [lists |-> ls, id |-> id]

ChildOf(lg, context) ==
    LET tr == ChildTransports(lists, loggers[lg].transports)
        options ==
            [ level |-> Some(loggers[lg].level),
              context |-> Some(ChildContext(loggers[lg].context, context)),
              transports |-> Some(tr.lists[tr.id]),
              formatter |-> Some(loggers[lg].formatter) ]
    IN /\ Idle
       /\ lists' = tr.lists
       /\ loggers' = Append(loggers, NewLogger(options, tr.id))
       /\ Forget
       /\ ret' = [NoRet EXCEPT !.op = "child", !.receiver = lg,
                                !.name = context,
                                !.logger = Len(loggers) + 1]
       /\ UNCHANGED <<defaultLogger, output>>
       /\ UNCHANGED <<entries, written, pending, agg>>

\* child() with every segment, on any logger
Child ==
    \E lg \in DOMAIN loggers, context \in Segments :
        Len(loggers) < MaxLoggers /\ ChildOf(lg, context)

\* child("database") on any logger
ChildOfFamily ==
    \E lg \in DOMAIN loggers :
        Len(loggers) < 1 + MaxChildren /\ ChildOf(lg, "database")

\* child("database") on any logger of a family of several generations
ChildOfKin ==
    \E lg \in DOMAIN loggers :
        Len(loggers) < MaxKin /\ ChildOf(lg, "database")

\* logger.error("msg") on any logger of the family
KinCall ==
    \E lg \in DOMAIN loggers :
        call.seq < MaxCalls /\ Log(lg, "error", ERROR, "msg", NoOptions)

\* logger.info("msg"): INFO lies between the two thresholds the scenarios set
FamilyCall ==
    \E lg \in DOMAIN loggers :
        call.seq < MaxCalls /\ Log(lg, "info", INFO, "msg", NoOptions)

\* ------------------------------------------------------------------------
\* createLogger and the default logger
\* ------------------------------------------------------------------------
\* new Logger(): no options
NoLoggerOptions ==
    [level |-> None, context |-> None, transports |-> None, formatter |-> None]

\* the options of the loggers the application creates to make them the
\* default; the context tells them from the loggers getDefaultLogger creates
CustomOptionsSet ==
    { [level |-> Some(ERROR), context |-> Some("custom"), transports |-> None,
       formatter |-> None] }

\* new Logger(options): a new logger object with an array of its own
Construct(options) ==
    /\ lists' = Append(lists, NewLoggerList(options))
    /\ loggers' = Append(loggers, NewLogger(options, Len(lists) + 1))

CreateLogger ==
    \E options \in CustomOptionsSet :
        /\ Idle
        /\ Len(loggers) < MaxInstances
        /\ Construct(options)
        /\ Forget
        /\ ret' = [NoRet EXCEPT !.op = "createLogger",
                                 !.logger = Len(loggers) + 1]
        /\ UNCHANGED <<defaultLogger, output>>
        /\ UNCHANGED <<entries, written, pending, agg>>

\* every call would create a logger and make it the default
DefaultAlwaysFresh(current, fresh) == Some(fresh)

\* if (!defaultLogger) { defaultLogger = new Logger(); }
DefaultAfterGet(current, fresh) == IF current = None THEN Some(fresh) ELSE current

GetDefaultLogger ==
    LET fresh == Len(loggers) + 1
        next == DefaultAfterGet(defaultLogger, fresh)
    IN /\ Idle
       /\ IF next = Some(fresh)
          THEN Len(loggers) < MaxInstances /\ Construct(NoLoggerOptions)
          ELSE UNCHANGED <<loggers, lists>>
       /\ defaultLogger' = next
       /\ Forget
       /\ ret' = [NoRet EXCEPT !.op = "getDefaultLogger", !.logger = The(next)]
       /\ UNCHANGED <<output, entries, written, pending, agg>>

SetDefaultLogger ==
    \E lg \in DOMAIN loggers :
        /\ Idle
        /\ defaultLogger' = Some(lg)
        /\ Forget
        /\ ret' = [NoRet EXCEPT !.op = "setDefaultLogger", !.logger = lg]
        /\ UNCHANGED <<loggers, lists, output, entries, written, pending, agg>>

ResetDefaultLogger ==
    /\ Idle
    /\ defaultLogger' = None
    /\ Forget
    /\ ret' = [NoRet EXCEPT !.op = "resetDefaultLogger"]
    /\ UNCHANGED <<loggers, lists, output, entries, written, pending, agg>>

\* ------------------------------------------------------------------------
\* The built-in sinks
\* ------------------------------------------------------------------------
\* LoggerOptions of loggers over built-in sinks: a JsonFormatter for the
\* logger and a console sink without a formatter, as the README's logger of
\* several transports; a console sink with a formatter of its own; no sink
SinkOptionsSet ==
    { [level |-> Some(DEBUG), context |-> None,
       transports |-> Some(<<"console">>), formatter |-> Some("json")],
      [level |-> None, context |-> Some("app"),
       transports |-> Some(<<"consoleJson">>), formatter |-> Some("timestamped")],
      [level |-> None, context |-> None,
       transports |-> Some(<<>>), formatter |-> Some("json")] }

SinkInit == \E options \in SinkOptionsSet : Start(options)

\* a logger whose only transport is a MemoryTransport, at the default
\* threshold INFO or at TRACE
MemoryOptionsSet ==
    { [level |-> None, context |-> None,
       transports |-> Some(<<"memory">>), formatter |-> None],
      [level |-> Some(TRACE), context |-> None,
       transports |-> Some(<<"memory">>), formatter |-> None] }

MemoryInit == \E options \in MemoryOptionsSet : Start(options)

\* the convenience methods and the level each logs at
Methods ==
    { <<"error", ERROR>>, <<"warn", WARN>>, <<"info", INFO>>,
      <<"debug", DEBUG>>, <<"trace", TRACE>> }

\* logger.error("msg"), .warn, .info, .debug or .trace, in scenarios of
\* several calls
MemoryCall ==
    \E lg \in DOMAIN loggers, m \in Methods :
        call.seq < MaxMemoryCalls /\ Log(lg, m[1], m[2], "msg", NoOptions)

\* MemoryTransport.getEntries(): the entries the sink holds, in order
GetEntries == [i \in DOMAIN written["memory"] |-> entries[written["memory"][i]]]

\* the levels of the entries written to the sink directly
StoredLevels == {ERROR, INFO}

\* the optional argument of getEntries(level?)
ReadLevels == {None, Some(ERROR), Some(INFO), Some(DEBUG)}

\* getEntries(level): all the stored entries, or those of the level
Select(stored, level) ==
    IF level = None THEN stored
    ELSE SelectSeq(stored, LAMBDA e : entries[e].level = The(level))

\* getEntries() would hand out this.entries itself
ReturnedArrayStored(level) == IF level = None THEN "entries" ELSE "copy"

\* the array getEntries returns: [...this.entries] and filter() both make a
\* new array ("copy"), never this.entries ("entries")
ReturnedArray(level) == "copy"

\* the array the application holds from its last getEntries: the same
\* contents, unless it is this.entries, which has become `stored`
Held(stored) ==
    IF ret.op = "getEntries" /\ ret.target = "entries"
    THEN [ret EXCEPT !.text = stored]
    ELSE ret

\* memory.write(entry), called on the sink: this.entries.push(entry)
MemoryWrite ==
    \E level \in StoredLevels :
        /\ Idle
        /\ Len(entries) < MaxStored
        /\ entries' = Append(entries,
                             [ level |-> level, message |-> "msg",
                               timestamp |-> Len(entries) + 1,
                               context |-> None, data |-> None,
                               error |-> None ])
        /\ written' = [written EXCEPT !["memory"] = Append(@, Len(entries) + 1)]
        /\ ret' = Held(written'["memory"])
        /\ Forget
        /\ UNCHANGED <<loggers, lists, pending, agg, defaultLogger, output>>

\* memory.clear(): this.entries.length = 0
Clear ==
    /\ Idle
    /\ written' = [written EXCEPT !["memory"] = <<>>]
    /\ ret' = Held(<<>>)
    /\ Forget
    /\ UNCHANGED <<loggers, lists, entries, pending, agg, defaultLogger, output>>

\* const held = memory.getEntries(level); ret.receiver counts the reads
GetEntriesCall ==
    \E level \in ReadLevels :
        /\ Idle
        /\ ret.receiver < MaxReads
        /\ ret' = [NoRet EXCEPT !.op = "getEntries",
                                !.receiver = ret.receiver + 1,
                                !.value = level,
                                !.text = Select(written["memory"], level),
                                !.target = ReturnedArray(level)]
        /\ Forget
        /\ UNCHANGED <<loggers, lists, entries, written, pending, agg,
                       defaultLogger, output>>

\* the application changes the array it was given: held.pop() or
\* held.shift()
MutateReturned ==
    \E method \in {"pop", "shift"} :
        /\ Idle
        /\ ret.op = "getEntries"
        /\ ret.text # <<>>
        /\ LET after == IF method = "pop"
                        THEN SubSeq(ret.text, 1, Len(ret.text) - 1)
                        ELSE Tail(ret.text)
           IN /\ ret' = [ret EXCEPT !.text = after]
              /\ written' = IF ret.target = "entries"
                            THEN [written EXCEPT !["memory"] = after]
                            ELSE written
        /\ Forget
        /\ UNCHANGED <<loggers, lists, entries, pending, agg, defaultLogger,
                       output>>

\* what new CallbackTransport(options) does: it assigns options.callback and
\* the formatter and returns, whether or not there is a callback
ConstructCallback(hasCallback) == "returns"

\* the transport new CallbackTransport(options) yields
Constructed(hasCallback, formatter) ==
    IF ~hasCallback THEN "callbackNone"
    ELSE IF formatter = Some("json") THEN "callbackJson" ELSE "callback"

\* createCallbackTransport(options), options with or without a callback and
\* a formatter
CreateCallbackTransport ==
    \E hasCallback \in BOOLEAN, formatter \in {None, Some("json")} :
        /\ Idle
        /\ Forget
        /\ ret' = [NoRet EXCEPT
                     !.op = "createCallbackTransport",
                     !.name = IF hasCallback THEN "callback" ELSE "no callback",
                     !.ok = (ConstructCallback(hasCallback) = "returns"),
                     !.target = IF ConstructCallback(hasCallback) = "returns"
                                THEN Constructed(hasCallback, formatter)
                                ELSE ""]
        /\ UNCHANGED <<defaultLogger, output>>
        /\ UNCHANGED <<loggers, lists, entries, written, pending, agg>>

\* logger.addTransport(t), t the transport createCallbackTransport returned
AddCreatedTransport ==
    \E lg \in DOMAIN loggers :
        /\ Idle
        /\ ret.op = "createCallbackTransport"
        /\ ret.ok
        /\ Len(ListOf(lg)) < MaxList
        /\ lists' = [lists EXCEPT ![loggers[lg].transports] = Push(@, ret.target)]
        /\ Forget
        /\ ret' = [NoRet EXCEPT !.op = "addTransport", !.receiver = lg,
                                 !.target = ret.target]
        /\ UNCHANGED <<defaultLogger, output>>
        /\ UNCHANGED <<loggers, entries, written, pending, agg>>

\* ------------------------------------------------------------------------
\* flush() and close()
\* ------------------------------------------------------------------------
\* what t.flush?.() / t.close?.() can do at once: "absent" when the transport
\* does not define the operation, else return undefined, throw, or return a
\* pending operation
OpResults(t, kind) ==
    IF Defines(t, kind) THEN {"void", "threw", "pending"} ELSE {"absent"}

\* this.transports.map((t) => t.flush?.()): the operations in array order;
\* a throw ends the map, so the transports after it are not called
MapOps(results) ==
    [i \in DOMAIN results |->
        IF \E j \in 1..(i - 1) : results[j] = "threw" THEN "notcalled"
        ELSE results[i]]

\* an aggregate that does not wait for the operations still pending
DoneOrPending(op) == op \in {"absent", "void", "fulfilled", "pending"}

\* an operation that needs no more waiting
Done(op) == op \in {"absent", "void", "fulfilled"}

\* an aggregate that succeeds once every member has settled, failed or not
PromiseAllSettled(ops) ==
    IF \A i \in DOMAIN ops : ops[i] # "pending" THEN "fulfilled" ELSE "pending"

\* await Promise.all(ops): rejected once a member is, fulfilled once all are
PromiseAll(ops) ==
    IF \E i \in DOMAIN ops : ops[i] \in {"rejected", "threw"} THEN "rejected"
    ELSE IF \A i \in DOMAIN ops : Done(ops[i]) THEN "fulfilled"
    ELSE "pending"

Aggregate(lg, kind) ==
    /\ Idle
    /\ agg.state # "pending"
    /\ \E results \in [1..Len(ListOf(lg)) -> {"absent", "void", "threw", "pending"}] :
        /\ \A i \in DOMAIN results : results[i] \in OpResults(ListOf(lg)[i], kind)
        /\ agg' = [ kind |-> kind, targets |-> ListOf(lg),
                    ops |-> MapOps(results), before |-> pending,
                    state |-> IF \E i \in DOMAIN results : results[i] = "threw"
                              THEN "rejected" ELSE "pending" ]
    /\ Forget
    /\ Void
    /\ UNCHANGED <<loggers, lists, entries, written, pending>>

Flush == \E lg \in DOMAIN loggers : Aggregate(lg, "flush")

Close == \E lg \in DOMAIN loggers : Aggregate(lg, "close")

\* a pending flush/close operation of a transport completes or fails
OpSettles ==
    \E i \in DOMAIN agg.ops, ok \in BOOLEAN :
        /\ Idle
        /\ agg.ops[i] = "pending"
        /\ agg' = [agg EXCEPT !.ops[i] = IF ok THEN "fulfilled" ELSE "rejected"]
        /\ Forget
        /\ Keep
        /\ UNCHANGED <<loggers, lists, entries, written, pending>>

\* flush()/close() would give up on operations that are still pending
AggregateTimesOut ==
    /\ Idle
    /\ agg.state = "pending"
    /\ agg' = [agg EXCEPT !.state = IF PromiseAll(agg.ops) = "pending"
                                    THEN "rejected" ELSE PromiseAll(agg.ops)]
    /\ Forget
    /\ Keep
    /\ UNCHANGED <<loggers, lists, entries, written, pending>>

\* the awaited Promise.all settles and flush()/close() completes
AggregateSettles ==
    /\ Idle
    /\ agg.state = "pending"
    /\ PromiseAll(agg.ops) # "pending"
    /\ agg' = [agg EXCEPT !.state = PromiseAll(agg.ops)]
    /\ Forget
    /\ Keep
    /\ UNCHANGED <<loggers, lists, entries, written, pending>>

\* ------------------------------------------------------------------------
\* Specifications
\* ------------------------------------------------------------------------
\* Logging and transport management: every behaviour of write()
Next ==
    \/ LogCall
    \/ ErrorCall
    \/ WarnCall
    \/ InfoCall
    \/ DebugCall
    \/ TraceCall
    \/ WriteReturns
    \/ WriteThrows
    \/ WritePending
    \/ WriteAddsTransport
    \/ WriteRemovesTransport
    \/ WriteSettles
    \/ SetLevel
    \/ AddTransport
    \/ RemoveTransport

Spec == Init /\ [][Next]_vars

\* flush() and close() among error() calls whose writes return or stay pending
FlushNext ==
    \/ ErrorCall
    \/ WriteReturns
    \/ WritePending
    \/ WriteSettles
    \/ AddTransport
    \/ Flush
    \/ Close
    \/ OpSettles
    \/ AggregateSettles

FlushSpec == Init /\ [][FlushNext]_vars

\* flush() and close() alone; the job queue runs the continuation of an
\* await once the awaited promise has settled, a transport's operation may
\* stay pending for ever
FlushLiveNext ==
    \/ AddTransport
    \/ Flush
    \/ Close
    \/ OpSettles
    \/ AggregateSettles

FlushLiveSpec ==
    Init /\ [][FlushLiveNext]_vars /\ WF_vars(AggregateSettles)

\* Contexts of a logger and its descendants, seen in the entries of error()
ContextNext ==
    \/ Child
    \/ ErrorCall
    \/ WriteReturns

ContextSpec == Init /\ [][ContextNext]_vars

\* Thresholds and transport lists of a logger and its descendants, over
\* transports whose write() returns
FamilyNext ==
    \/ ChildOfFamily
    \/ FamilyCall
    \/ WriteReturns
    \/ SetLevelOfFamily
    \/ AddTransport
    \/ RemoveTransport

FamilySpec == Init /\ [][FamilyNext]_vars

\* A root logger, children, grandchildren and siblings, addTransport and
\* removeTransport on any of them, and error() calls
KinNext ==
    \/ ChildOfKin
    \/ AddTransport
    \/ RemoveTransport
    \/ KinCall
    \/ WriteReturns

KinSpec == Init /\ [][KinNext]_vars

\* error() calls before and after flush() and close(), with transports whose
\* write may throw
AfterCloseNext ==
    \/ AddTransport
    \/ Flush
    \/ Close
    \/ OpSettles
    \/ AggregateSettles
    \/ KinCall
    \/ WriteReturns
    \/ WriteThrows

AfterCloseSpec == Init /\ [][AfterCloseNext]_vars

\* Lists that hold a transport, or a name, more than once: addTransport and
\* removeTransport between error() calls whose writes return or throw
DuplicateNext ==
    \/ AddTransport
    \/ RemoveTransport
    \/ ListCall
    \/ WriteReturns
    \/ WriteThrows

DuplicateSpec == Init /\ [][DuplicateNext]_vars

\* addTransport and removeTransport between and within error() calls
ListNext ==
    \/ ListCall
    \/ WriteReturns
    \/ WriteThrows
    \/ WriteAddsTransport
    \/ WriteRemovesTransport
    \/ AddTransport
    \/ RemoveTransport

ListSpec == Init /\ [][ListNext]_vars

\* The default logger among loggers the application creates
DefaultNext ==
    \/ CreateLogger
    \/ GetDefaultLogger
    \/ SetDefaultLogger
    \/ ResetDefaultLogger
    \/ SetLevelOfFamily

DefaultSpec == Init /\ [][DefaultNext]_vars

\* Console and callback sinks, constructed with and without a formatter and
\* a callback, under loggers that have a formatter
SinkNext ==
    \/ CreateCallbackTransport
    \/ AddCreatedTransport
    \/ LogCall
    \/ WriteReturns
    \/ WriteThrows
    \/ WritePending
    \/ WriteSettles

SinkSpec == SinkInit /\ [][SinkNext]_vars

\* Log calls and setLevel on a logger whose only transport is a memory sink
MemoryNext ==
    \/ MemoryCall
    \/ WriteReturns
    \/ SetLevel

MemorySpec == MemoryInit /\ [][MemoryNext]_vars

\* The memory sink used directly: writes, reads, clear, and the application
\* changing an array it was given
MemoryReadNext ==
    \/ MemoryWrite
    \/ Clear
    \/ GetEntriesCall
    \/ MutateReturned

MemoryReadSpec == MemoryInit /\ [][MemoryReadNext]_vars

\* the built-in formatters
Formatters == {"simple", "timestamped", "json"}

\* entries with and without context, data (absent, empty, one key) and error
FormatEntries ==
    { [ level |-> level, message |-> "msg", timestamp |-> 1,
        context |-> context, data |-> data, error |-> error ] :
        level \in {INFO, DEBUG}, context \in {None, Some("app")},
        data \in {None, Some({}), Some({<<"k", "v">>})},
        error \in {None, Some(Boom)} }

\* a formatter applied to an entry
FormatInit ==
    \E entry \in FormatEntries :
        /\ lists = <<NewLoggerList(NoLoggerOptions)>>
        /\ loggers = <<NewLogger(NoLoggerOptions, 1)>>
        /\ entries = <<entry>>
        /\ written = [t \in Transports |-> <<>>]
        /\ pending = 0
        /\ call = NoCall
        /\ agg = NoAggregate
        /\ ret = NoRet
        /\ defaultLogger = None
        /\ output = <<>>

FormatCall ==
    \E formatter \in Formatters :
        /\ Len(output) < MaxFormats
        /\ output' = Append(output,
                            [ sink |-> "", channel |-> "", entry |-> 1,
                              formatter |-> formatter,
                              text |-> Format(formatter, entries[1]),
                              result |-> "void" ])
        /\ UNCHANGED <<loggers, lists, entries, written, pending, call, agg,
                       ret, defaultLogger>>

FormatSpec == FormatInit /\ [][FormatCall]_vars

\* parseLogLevel applied to a string
ParseInit ==
    \E chars \in ParseInputs :
        /\ lists = <<NewLoggerList(NoLoggerOptions)>>
        /\ loggers = <<NewLogger(NoLoggerOptions, 1)>>
        /\ entries = <<>>
        /\ written = [t \in Transports |-> <<>>]
        /\ pending = 0
        /\ call = NoCall
        /\ agg = NoAggregate
        /\ ret = [NoRet EXCEPT !.op = "string", !.text = chars]
        /\ defaultLogger = None
        /\ output = <<>>

ParseLogLevelCall ==
    /\ ret.op = "string"
    /\ ret' = [ret EXCEPT !.op = "parseLogLevel",
                          !.value = ParseLogLevel(ret.text)]
    /\ UNCHANGED <<loggers, lists, entries, written, pending, call, agg,
                   defaultLogger, output>>

ParseSpec == ParseInit /\ [][ParseLogLevelCall]_vars

\* errorWithException() under every threshold
ExceptionNext ==
    \/ ErrorWithExceptionCall
    \/ WriteReturns
    \/ SetLevel

ExceptionSpec == Init /\ [][ExceptionNext]_vars

\* Sequences of error() calls with and without per-call options
OptionsNext ==
    \/ OptionsCall
    \/ WriteReturns

OptionsSpec == Init /\ [][OptionsNext]_vars

TypeOK ==
    /\ call.status \in {"none", "dispatching", "returned", "threw"}
    /\ pending \in 0..MaxPending
    /\ agg.before \in 0..pending
    /\ agg.state \in {"none", "pending", "fulfilled", "rejected"}
    /\ \A i \in DOMAIN lists : Len(lists[i]) <= MaxList

\* ------------------------------------------------------------------------
\* Properties
\* ------------------------------------------------------------------------
\* the log call of the call record has left log(), by return or by exception
Completed == call.status \in {"returned", "threw"}

\* the call passed the level filter and built an entry
Accepted == call.entry # 0

\* write() was invoked for this call on every transport of the logger's list
WroteEvery ==
    \A i \in 1..Len(ListOf(call.logger)) :
        \E j \in 1..Len(call.fanout) : call.fanout[j] = ListOf(call.logger)[i]

\* a member operation of the aggregate threw or its pending operation failed
MemberFailed == \E i \in DOMAIN agg.ops : agg.ops[i] \in {"threw", "rejected"}

\* C1: a log call (log or convenience method) at level L under threshold T
\* has, once it is over, written to every transport of the list if L <= T
\* and to no transport if L > T.
C1_FilterWritesAllOrNone ==
    Completed =>
        IF call.level <= call.threshold THEN WroteEvery
        ELSE call.fanout = <<>>

\* C2: when the write of one transport throws, write is still invoked on
\* every other transport of the list for that call.
C2_ThrowDoesNotStopFanOut == call.status = "threw" => WroteEvery

\* C3: a failing write never propagates out of log(): the call returns
\* normally.
C3_LogNeverThrows == call.status # "threw"

\* C4: the transports written by one accepted call, and their order, are
\* exactly the list as it was when dispatch began, even when a write adds or
\* removes transports.
C4_FanOutIsSnapshot ==
    (call.status = "returned" /\ Accepted) => call.fanout = call.snapshot

\* C5: a log call above the threshold is a pure no-op: it builds no entry,
\* invokes no transport and changes neither the logger's level, context and
\* transport list nor what any sink received.
C5_FilteredCallIsNoOp ==
    [][ (call'.seq # call.seq /\ call'.level > loggers[call'.logger].level)
          => /\ UNCHANGED <<loggers, lists, entries, written, pending, agg>>
             /\ call'.entry = 0
             /\ call'.fanout = <<>>
             /\ call'.status = "returned" ]_vars

\* a filtered call was made on a logger that has transports
C5_Witness ==
    /\ call.seq > 0
    /\ call.status = "returned"
    /\ call.level > call.threshold
    /\ ListOf(call.logger) # <<>>

\* C6: flush()/close() invokes the operation on every transport of the list
\* that defines it, whatever the other transports' operations do, and skips
\* a transport that does not define it.
C6_EveryDefinedOpInvoked ==
    agg.state # "none" =>
        \A i \in DOMAIN agg.targets :
            IF Defines(agg.targets[i], agg.kind)
            THEN \E j \in DOMAIN agg.targets :
                    /\ agg.targets[j] = agg.targets[i]
                    /\ agg.ops[j] \notin {"notcalled", "absent"}
            ELSE agg.ops[i] = "absent"

\* C7: a flush()/close() that has completed has failed exactly when one of
\* its transport operations threw or failed; it never reports success when
\* a member failed.
C7_AggregateFailsIffMemberFailed ==
    agg.state \in {"fulfilled", "rejected"} =>
        (agg.state = "rejected" <=> MemberFailed)

\* the aggregate failed because a pending transport operation failed
C7_Witness ==
    /\ agg.state = "rejected"
    /\ \E i \in DOMAIN agg.ops : agg.ops[i] = "rejected"

\* C8 as stated: flush()/close() never completes, with success or failure,
\* while a transport operation it started is still pending (looked at where
\* no operation threw, so that every operation of the list was started).
C8_CompletesOnlyWhenAllComplete ==
    ( /\ agg.state \in {"fulfilled", "rejected"}
      /\ \A i \in DOMAIN agg.ops : agg.ops[i] # "threw" )
        => \A i \in DOMAIN agg.ops : agg.ops[i] # "pending"

\* C8 amended: flush()/close() never completes successfully while a transport
\* operation it started is still pending.
C8_SucceedsOnlyWhenAllComplete ==
    agg.state = "fulfilled" => \A i \in DOMAIN agg.ops : Done(agg.ops[i])

\* the aggregate succeeded after waiting for a pending operation
C8_Witness ==
    /\ agg.state = "fulfilled"
    /\ \E i \in DOMAIN agg.ops : agg.ops[i] = "fulfilled"

\* C9: when flush()/close() completes, every asynchronous write dispatched by
\* an earlier log call has completed.
C9_FlushWaitsForWrites == agg.state = "fulfilled" => agg.before = 0

\* C10: when an accepted log call returns, write has been invoked on every
\* transport of the list (and the call did not wait for a pending write).
C10_ReturnedAfterWritingAll ==
    (call.status = "returned" /\ Accepted) => WroteEvery

\* the transports of a sequence
Range(list) == {list[i] : i \in DOMAIN list}

\* C11: a child holds the very transport list of its parent: whatever logger
\* of the family addTransport or removeTransport was called on, every logger
\* of the family has the resulting list, and an accepted log call through any
\* of them writes to the transports of that list.
C11_ChildSharesList ==
    /\ \A lg \in DOMAIN loggers : ListOf(lg) = ListOf(1)
    /\ ret.op = "addTransport" =>
           \A lg \in DOMAIN loggers :
               /\ ListOf(lg) # <<>>
               /\ ListOf(lg)[Len(ListOf(lg))] = ret.target
    /\ (call.status = "returned" /\ Accepted) =>
           \A lg \in DOMAIN loggers : call.fanout = ListOf(lg)

\* a child exists, a transport was just added through its parent, and the
\* list the child walks holds it
C11_Witness ==
    /\ Len(loggers) >= 2
    /\ ret.op = "addTransport"
    /\ ret.receiver = 1
    /\ ret.target \in Range(ListOf(2))

\* C12 as stated: child(s), s not empty, of a logger that has a context c
\* (a string, possibly the empty one) yields context c + ":" + s, and of a
\* logger that has none yields s.
C12_ChildContextOfAnyContext ==
    (ret.op = "child" /\ ret.name # "") =>
        loggers[ret.logger].context =
            Some(IF loggers[ret.receiver].context # None
                 THEN The(loggers[ret.receiver].context) \o ":" \o ret.name
                 ELSE ret.name)

\* C12: child(s), s not empty, of a logger whose context c is a non-empty
\* string yields context c + ":" + s; of a logger whose context is absent or
\* the empty string it yields s. The entries of a call without
\* options.context carry the context of the logger the call was made on, and
\* no step changes the context of a logger that exists.
C12_ChildContextComposition ==
    /\ [](/\ (ret.op = "child" /\ ret.name # "") =>
                loggers[ret.logger].context =
                    Some(IF /\ loggers[ret.receiver].context # None
                            /\ loggers[ret.receiver].context # Some("")
                         THEN The(loggers[ret.receiver].context)
                                   \o ":" \o ret.name
                         ELSE ret.name)
          /\ (Accepted /\ call.options.context = None) =>
                entries[call.entry].context = loggers[call.logger].context)
    /\ [][\A lg \in DOMAIN loggers :
             loggers'[lg].context = loggers[lg].context]_vars

\* logger("app").child("database").child("query") logged an entry, and the
\* entry carries "app:database:query"
C12_Witness ==
    /\ Completed
    /\ Accepted
    /\ call.logger = 3
    /\ loggers[1].context = Some("app")
    /\ call.options.context = None
    /\ entries[call.entry].context = Some("app:database:query")

\* C13: a child starts with the threshold its parent has when child() is
\* called; setLevel changes the threshold of the logger it is called on and
\* of no other, so each logger filters by its own threshold.
C13_IndependentThresholds ==
    /\ [](/\ ret.op = "child" =>
                loggers[ret.logger].level = loggers[ret.receiver].level
          /\ Completed =>
                (Accepted <=> call.level <= loggers[call.logger].level))
    /\ [][ret'.op = "setLevel" =>
             \A lg \in DOMAIN loggers :
                 lg # ret'.receiver => loggers'[lg].level = loggers[lg].level]_vars

\* setLevel was just called on the parent and the child's threshold differs
C13_Witness ==
    /\ Len(loggers) >= 2
    /\ ret.op = "setLevel"
    /\ ret.receiver = 1
    /\ loggers[1].level # loggers[2].level

\* C14: per-call options never mutate the logger: no step of a log call
\* changes a logger's context, level or transport list; the entry of a call
\* carries options.context when the call gave one and the logger's own
\* context when it gave none, whatever earlier calls passed.
C14_OptionsDoNotMutateLogger ==
    /\ [](Accepted =>
            /\ entries[call.entry].context =
                   (IF call.options.context # None
                    THEN call.options.context
                    ELSE loggers[call.logger].context)
            /\ entries[call.entry].data = call.options.data
            /\ entries[call.entry].error = call.options.error)
    /\ [][loggers' = loggers /\ lists' = lists]_vars

\* a call with options.context "req" and one with "job" were followed by a
\* call without options on the logger whose context is "app", and its entry
\* carries "app"
C14_Witness ==
    /\ Len(entries) = 3
    /\ entries[1].context = Some("req")
    /\ entries[2].context = Some("job")
    /\ call.entry = 3
    /\ call.options = NoOptions
    /\ loggers[call.logger].context = Some("app")
    /\ entries[3].context = Some("app")

\* C15: addTransport puts the transport at the end of the list, keeps the
\* elements before it and replays nothing to it; every write of a log call
\* goes to the transport at the loop's position in the list, positions
\* ascending, and hands over the entry of that call, the latest one built, so
\* a transport receives no entry logged before it was added.
C15_AddTransportAppends ==
    /\ [][ret'.op = "addTransport" =>
             /\ lists'[loggers[ret'.receiver].transports] = ListOf(ret'.receiver) \o <<ret'.target>>
             /\ written' = written]_vars
    /\ [][\A t \in Transports :
             written'[t] # written[t] =>
                 /\ Dispatching
                 /\ t = ListOf(call.logger)[call.index]
                 /\ call.entry = Len(entries)
                 /\ written'[t] = Append(written[t], call.entry)
                 /\ call'.fanout = Append(call.fanout, t)
                 /\ call'.index = call.index + 1 \/ call'.status = "threw"]_vars

\* mockB was added after the first entry was logged; the second call wrote
\* to the list in order, mockB last, and mockB holds the second entry only
C15_Witness ==
    /\ call.status = "returned"
    /\ call.entry = 2
    /\ call.fanout = <<"mockA", "mockB">>
    /\ written["mockA"] = <<1, 2>>
    /\ written["mockB"] = <<2>>

\* C16 as stated: the log call that follows a removeTransport that returned
\* true does not write to the removed transport.
C16_RemovedReceivesNoWrite ==
    [][(/\ ret.op = "removeTransport"
        /\ ret.ok
        /\ call'.seq # call.seq
        /\ call'.entry # 0) => ret.target \notin Range(call'.snapshot)]_vars

\* C16: removeTransport(name) returns false and leaves the list as it is when
\* no transport of the list has that name; else it returns true and the list
\* loses exactly the first transport of that name, the others keeping their
\* order. The log call that follows walks the list the removal left: the
\* removed transport is written again only where the list still holds it at
\* another position.
C16_RemoveTransportRemovesFirst ==
    /\ [][ret'.op = "removeTransport" =>
             LET list == ListOf(ret'.receiver)
                 named == {i \in DOMAIN list : TransportName(list[i]) = ret'.name}
             IN IF named = {}
                THEN ret'.ok = FALSE /\ lists' = lists
                ELSE /\ ret'.ok = TRUE
                     /\ \E i \in named :
                            /\ \A j \in named : i <= j
                            /\ ret'.target = list[i]
                            /\ lists'[loggers[ret'.receiver].transports] =
                                   SubSeq(list, 1, i - 1)
                                       \o SubSeq(list, i + 1, Len(list))]_vars
    /\ [][(/\ ret.op = "removeTransport"
           /\ call'.seq # call.seq
           /\ call'.entry # 0) => call'.snapshot = ListOf(ret.receiver)]_vars

\* removeTransport("mock") on [mockA, mockB] returned true, took mockA out and
\* left mockB
C16_Witness ==
    /\ ret.op = "removeTransport"
    /\ ret.ok
    /\ ret.target = "mockA"
    /\ ListOf(ret.receiver) = <<"mockB">>

\* C17: getDefaultLogger returns the logger the default is set to, which is
\* the one passed to the latest setDefaultLogger unless a reset followed;
\* when there is none it creates one with threshold INFO, a logger that did
\* not exist before, and makes it the default. The default changes by
\* setDefaultLogger, resetDefaultLogger and such a creation only, so every
\* getDefaultLogger until the next set or reset returns the same logger.
C17_DefaultLogger ==
    /\ [](/\ ret.op \in {"getDefaultLogger", "setDefaultLogger"} =>
                defaultLogger = Some(ret.logger)
          /\ ret.op = "resetDefaultLogger" => defaultLogger = None)
    /\ [][ret'.op = "getDefaultLogger" =>
             IF defaultLogger # None
             THEN /\ ret'.logger = The(defaultLogger)
                  /\ UNCHANGED <<defaultLogger, loggers>>
             ELSE /\ ret'.logger \notin DOMAIN loggers
                  /\ DOMAIN loggers' = DOMAIN loggers \cup {ret'.logger}
                  /\ loggers'[ret'.logger].level = INFO
                  /\ \A lg \in DOMAIN loggers : loggers'[lg] = loggers[lg]]_vars
    /\ [][defaultLogger' # defaultLogger =>
             ret'.op \in {"getDefaultLogger", "setDefaultLogger",
                          "resetDefaultLogger"}]_vars

\* getDefaultLogger has created a logger for the second time, so after a
\* reset, and returns it: loggers 2 and 3 were made without options
C17_Witness ==
    /\ ret.op = "getDefaultLogger"
    /\ ret.logger = 3
    /\ loggers[2].context = None
    /\ loggers[3].context = None

\* C18: the text a console or callback sink hands on for an entry is the
\* entry formatted by the sink's own formatter when the sink was constructed
\* with one, else by the formatter of the logger that made the call.
C18_LoggerFormatterSupplied ==
    \A i \in DOMAIN output :
        output[i].text =
            Format(The(Coalesce(GivenFormatter(output[i].sink),
                                Some(loggers[1].formatter))),
                   entries[output[i].entry])

\* C19: createCallbackTransport with options that hold no callback fails: it
\* returns no transport, and no write of a log call fails for want of a
\* callback.
C19_NoCallbackFailsAtConstruction ==
    /\ (ret.op = "createCallbackTransport" /\ ret.name = "no callback") => ~ret.ok
    /\ call.status = "threw" => call.fanout[Len(call.fanout)] # "callbackNone"

\* C20: with a memory sink as the only transport, a call at a level at or
\* under the threshold the logger has at that moment adds one entry of that
\* level and message to the end of the sink's entries, and a call above the
\* threshold leaves them as they are: once a call has returned, the sink holds
\* the entries of the accepted calls, once each, in call order.
C20_MemoryHoldsAcceptedCalls ==
    /\ [](/\ ~Dispatching => GetEntries = entries
          /\ Completed =>
                IF call.level <= call.threshold
                THEN /\ GetEntries # <<>>
                     /\ GetEntries[Len(GetEntries)].level = call.level
                     /\ GetEntries[Len(GetEntries)].message = call.message
                ELSE call.entry = 0)
    /\ [][call'.seq # call.seq =>
             /\ call'.threshold = loggers[call'.logger].level
             /\ IF call'.level <= call'.threshold
                THEN Len(entries') = Len(entries) + 1
                ELSE entries' = entries /\ written' = written]_vars
    /\ [][\A i \in DOMAIN entries :
             i \in DOMAIN entries' /\ entries'[i] = entries[i]]_vars

\* at INFO, the fourth call, debug, was filtered, and the sink holds three
\* entries of levels ERROR, WARN, INFO in that order
C20_Witness ==
    /\ call.seq = 4
    /\ call.method = "debug"
    /\ call.status = "returned"
    /\ call.entry = 0
    /\ loggers[1].level = INFO
    /\ Len(GetEntries) = 3
    /\ GetEntries[1].level = ERROR
    /\ GetEntries[2].level = WARN
    /\ GetEntries[3].level = INFO

\* C21 as stated: parseLogLevel returns L for every spelling of the name of
\* L in upper, lower or mixed case, and null for every other string.
C21_ParsesCaseSpellingsOnly ==
    ret.op = "parseLogLevel" =>
        ret.value =
            {level \in LogLevel : ret.text \in CaseSpellings(NameChars(level))}

\* C21: the table names each level by the characters of its display name;
\* parseLogLevel returns L for every spelling of the name of L in upper,
\* lower or mixed case, and also where a dotless i stands for the I of the
\* name; for every other string it returns null.
C21_ParseLogLevelRoundTrip ==
    /\ \A level \in LogLevel : Spell(NameChars(level)) = LOG_LEVEL_NAMES(level)
    /\ ret.op = "parseLogLevel" =>
          ret.value =
              {level \in LogLevel :
                  /\ Len(ret.text) = Len(NameChars(level))
                  /\ \A i \in DOMAIN ret.text :
                        \/ ret.text[i] = NameChars(level)[i]
                        \/ ret.text[i] = ToLowerCase(NameChars(level)[i])
                        \/ ret.text[i] = DotlessI /\ NameChars(level)[i] = "I"}

\* parseLogLevel("wArN") returned WARN
C21_Witness ==
    /\ ret.op = "parseLogLevel"
    /\ ret.text = <<"w", "A", "r", "N">>
    /\ ret.value = Some(WARN)

\* C22: errorWithException logs at level ERROR, filtered by the threshold as
\* any call at ERROR; the entry's error is the error argument, whether or not
\* the options hold an error of their own, and its context and data are
\* those the options give, the context falling back to the logger's.
C22_ErrorWithException ==
    call.method = "errorWithException" =>
        /\ call.level = ERROR
        /\ Accepted <=> ERROR <= call.threshold
        /\ Accepted =>
              /\ entries[call.entry].level = ERROR
              /\ entries[call.entry].error = Some(Crash)
              /\ entries[call.entry].data = call.options.data
              /\ entries[call.entry].context =
                     (IF call.options.context # None THEN call.options.context
                      ELSE loggers[call.logger].context)

\* errorWithException was called with options that hold the context "job"
\* and an error of their own, and the entry carries the argument
C22_Witness ==
    /\ call.method = "errorWithException"
    /\ Accepted
    /\ entries[call.entry].context = Some("job")
    /\ entries[call.entry].error = Some(Crash)

\* C23: when an accepted log call is over, one entry was built for it, the
\* latest; its level and message are the call's, its context is
\* options.context or else the logger's, its data and error are those of the
\* options; and every transport of the list was handed that entry.
C23_OneEntryToEveryTransport ==
    (Completed /\ Accepted) =>
        /\ call.entry = Len(entries)
        /\ entries[call.entry].level = call.level
        /\ entries[call.entry].message = call.message
        /\ entries[call.entry].context =
               (IF call.options.context # None THEN call.options.context
                ELSE loggers[call.logger].context)
        /\ entries[call.entry].data = call.options.data
        /\ entries[call.entry].error = call.options.error
        /\ \A t \in Range(ListOf(call.logger)) : call.entry \in Range(written[t])

\* the JSON text of an entry without error, up to the place of the data key
JsonUpToData(entry) ==
    "{\"level\":\"" \o LOG_LEVEL_NAMES(entry.level)
        \o "\",\"message\":\"" \o entry.message
        \o "\",\"timestamp\":\"" \o ToISOString(entry.timestamp) \o "\""
        \o (IF entry.context # None
            THEN ",\"context\":\"" \o The(entry.context) \o "\"" ELSE "")

\* C24: for an entry whose data is present without keys the Simple and the
\* Timestamped formatter give the text they give for the entry without data,
\* and the JSON formatter gives a text other than that, with the key data
\* holding {}; for an entry with the data {k: v} all three give a text that
\* holds the data: the two text formatters put {"k":"v"} after the message,
\* the JSON formatter puts it under the key data.
C24_EmptyDataInFormatters ==
    \A i \in DOMAIN output :
        LET entry == entries[output[i].entry]
            bare == [entry EXCEPT !.data = None]
            plain == [bare EXCEPT !.error = None]
            tail == IF entry.error = None THEN ""
                    ELSE "\n" \o The(The(entry.error).stack)
            formatter == output[i].formatter
            text == output[i].text
        IN (output[i].sink = "" /\ entry.data # None) =>
              IF formatter \in {"simple", "timestamped"}
              THEN IF The(entry.data) = {}
                   THEN text = Format(formatter, bare)
                   ELSE text = Format(formatter, plain)
                                  \o " {\"k\":\"v\"}" \o tail
              ELSE /\ text # Format(formatter, bare)
                   /\ entry.error = None =>
                         text = JsonUpToData(entry)
                                  \o (IF The(entry.data) = {}
                                      THEN ",\"data\":{}"
                                      ELSE ",\"data\":{\"k\":\"v\"}")
                                  \o "}"

\* an entry whose data has no keys was formatted by the Simple and by the
\* JSON formatter
C24_Witness ==
    /\ Len(output) = 2
    /\ entries[1].data = Some({})
    /\ output[1].formatter = "simple"
    /\ output[2].formatter = "json"
    /\ output[1].text = "[INFO] msg"
    /\ output[2].text # output[1].text

\* C25: flush()/close() completes once each operation it started has settled
\* or one has failed, and by nothing else: an aggregate that is pending while
\* an operation of it is pending and none has failed is still pending after
\* every step that settles no operation.
C25_NoTimeout ==
    /\ (agg.state = "pending" /\ PromiseAll(agg.ops) # "pending")
           ~> (agg.state # "pending")
    /\ [][(/\ agg.state = "pending"
           /\ \E i \in DOMAIN agg.ops : agg.ops[i] = "pending"
           /\ ~MemberFailed) => agg'.state = "pending"]_vars

\* an operation that was pending has completed and the aggregate after it
C25_Witness ==
    /\ agg.state = "fulfilled"
    /\ \E i \in DOMAIN agg.ops : agg.ops[i] = "fulfilled"

\* C26: getEntries() returns the stored entries in arrival order and
\* getEntries(L) those of level L in the same relative order; no step changes
\* both the stored sequence and an array returned earlier (the array is a
\* copy); the stored sequence shrinks only to empty (clear), and a write
\* appends the one new entry to whatever is stored, the empty sequence after
\* clear.
C26_MemoryReads ==
    [][ /\ ret'.receiver # ret.receiver =>
            /\ ret'.text = Select(written["memory"], ret'.value)
            /\ \A i, j \in DOMAIN ret'.text : i < j => ret'.text[i] < ret'.text[j]
            /\ ret'.value = None => ret'.text = written["memory"]
            /\ \A e \in DOMAIN entries :
                   (\E i \in DOMAIN ret'.text : ret'.text[i] = e) <=>
                       /\ \E k \in DOMAIN written["memory"] :
                              written["memory"][k] = e
                       /\ ret'.value # None => entries[e].level = The(ret'.value)
        /\ ret'.receiver = ret.receiver =>
            \/ ret'.text = ret.text
            \/ written'["memory"] = written["memory"]
        /\ Len(written'["memory"]) < Len(written["memory"]) =>
            written'["memory"] = <<>>
        /\ entries' # entries =>
            /\ written'["memory"] = Append(written["memory"], Len(entries'))
            /\ ret' = ret
      ]_vars

\* an array of the ERROR entries was returned, then the sink was cleared and
\* written once more
C26_Witness ==
    /\ ret.op = "getEntries"
    /\ ret.value = Some(ERROR)
    /\ ret.text = <<1>>
    /\ Len(entries) = 3
    /\ entries[2].level = INFO
    /\ written["memory"] = <<3>>

\* C27: a write on a callback sink that has a callback invokes the callback
\* once, with the entry of the call and the text of the sink's own formatter
\* (Simple when it was given none), and the write ends as the callback does:
\* it throws exactly when the callback throws and is pending exactly when the
\* callback returned a pending operation.
C27_CallbackWrite ==
    [][ (/\ Dispatching
         /\ call'.fanout # call.fanout
         /\ Current \in {"callback", "callbackJson"}) =>
            /\ Len(output') = Len(output) + 1
            /\ SubSeq(output', 1, Len(output)) = output
            /\ LET invoked == output'[Len(output')]
               IN /\ invoked.sink = Current
                  /\ invoked.channel = "callback"
                  /\ invoked.entry = call.entry
                  /\ invoked.text =
                        Format(IF Current = "callbackJson" THEN "json"
                               ELSE "simple", entries[call.entry])
                  /\ invoked.result = "threw" <=> call'.status = "threw"
                  /\ invoked.result = "pending" <=> pending' = pending + 1
                  /\ invoked.result = "void" <=>
                        (pending' = pending /\ call'.status # "threw")
      ]_vars

\* one call wrote to a callback sink without a formatter, whose callback
\* returned a pending operation, and to one with the JSON formatter, whose
\* callback threw
C27_Witness ==
    /\ Len(output) = 2
    /\ output[1].sink = "callback"
    /\ output[1].result = "pending"
    /\ output[2].sink = "callbackJson"
    /\ output[2].result = "threw"
    /\ call.status = "threw"

\* C28: there is one transport array, the one the root logger was
\* constructed with, and every logger of the family holds it; addTransport
\* and removeTransport on any logger change that array in place, and the
\* fan-out of a call on any logger is over it.
C28_OneListForAllKin ==
    /\ [](/\ Len(lists) = 1
          /\ \A lg \in DOMAIN loggers : loggers[lg].transports = 1
          /\ (Completed /\ Accepted) => call.fanout = lists[1])
    /\ [][ /\ (ret'.op = "addTransport" /\ ret' # ret) =>
                \A lg \in DOMAIN loggers :
                    lists'[loggers[lg].transports] = Push(lists[1], ret'.target)
           /\ (ret'.op = "removeTransport" /\ ret' # ret) =>
                \A lg \in DOMAIN loggers :
                    lists'[loggers[lg].transports] = Removed(lists[1], ret'.name)
           /\ (call'.seq # call.seq /\ call'.entry # 0) =>
                call'.snapshot = lists[1]
         ]_vars

\* a call on the sibling of a child that has a child of its own wrote to the
\* transport the root was constructed with and to one added later
C28_Witness ==
    /\ Len(loggers) = 4
    /\ loggers[1].context = Some("app")
    /\ loggers[2].context = Some("app:database")
    /\ loggers[3].context = Some("app:database:database")
    /\ loggers[4].context = Some("app:database")
    /\ call.logger = 4
    /\ Completed
    /\ call.fanout = <<"mockA", "mockB">>

\* the positions of a list that hold a transport of the name
Occurrences(list, name) ==
    Cardinality({i \in DOMAIN list : TransportName(list[i]) = name})

\* the positions of a list that hold the transport
Times(list, t) == Cardinality({i \in DOMAIN list : list[i] = t})

\* C29: once an accepted log call is over, a transport that is k times in
\* the list was written k times by the call; removeTransport(name) on a list
\* with k > 0 transports of the name returns true and leaves k - 1 of them,
\* and with none it returns false.
C29_DuplicatesWrittenAndRemovedOnce ==
    /\ [](( Completed /\ Accepted) =>
            \A t \in Transports :
                Times(call.fanout, t) = Times(ListOf(call.logger), t))
    /\ [][(ret'.op = "removeTransport" /\ ret' # ret) =>
            LET k == Occurrences(ListOf(ret'.receiver), ret'.name)
            IN /\ ret'.ok <=> k > 0
               /\ Occurrences(lists'[loggers[ret'.receiver].transports],
                              ret'.name) = IF k > 0 THEN k - 1 ELSE 0]_vars

\* C30: flush() and close() leave every logger's level and context and every
\* transport list as they are; each flush() or close(), the first and any
\* later one, runs over the transports of the list from the first; and an
\* accepted log call that is over after a close() has completed has invoked
\* write on every transport of the list.
C30_NoClosedState ==
    /\ [][agg' # agg => (loggers' = loggers /\ lists' = lists)]_vars
    /\ [](agg.state # "none" =>
            /\ Len(agg.ops) = Len(agg.targets)
            /\ agg.ops # <<>> => agg.ops[1] # "notcalled")
    /\ []((/\ agg.kind = "close"
           /\ agg.state \in {"fulfilled", "rejected"}
           /\ Completed
           /\ Accepted) => WroteEvery)

====
